---- MODULE Spec2Model ----
(***************************************************************************)
(* Task Management API (hwasyui/tg-crescentrating).                        *)
(*                                                                         *)
(* The record store (a MongoDB collection reached through the mongoose     *)
(* model Task), the six request handlers of TaskController, the validate   *)
(* middleware with the two Joi schemas, and TaskService.getTaskStats.      *)
(*                                                                         *)
(* Representation.  Time is a discrete clock.  A Date is [time |-> t],     *)
(* the Invalid Date is InvalidDate, JSON null is NULL.  A text that is     *)
(* meant as a date (a deadline in a body, deadlineFrom / deadlineTo in a   *)
(* query string) is [iso |-> t] when it is the ISO text of instant t and   *)
(* [text |-> s] otherwise.  Other strings are TLA+ strings, except title   *)
(* and description, which are represented by their length.  A request      *)
(* body and a query string are records whose DOMAIN is the set of keys     *)
(* that were supplied.  An id string is [len, hex, oid]: its length,       *)
(* whether all its characters are hexadecimal digits, and the ObjectId it  *)
(* denotes when it is well formed.                                         *)
(***************************************************************************)
EXTENDS Integers, Sequences, FiniteSets, TLC

VARIABLES
    tasks,      \* the collection: _id -> document
    lastId,     \* number of ObjectIds generated so far (ids are never reused)
    clock,      \* the current instant
    statsCall,  \* getTaskStats awaiting Task.find({}): [now |-> t], or NULL
    res         \* the last response sent, with what the handler handed to the store

vars == <<tasks, lastId, clock, statsCall, res>>

-----------------------------------------------------------------------------
(* Bounds of the model *)

MaxTasks == 2
MaxTime == 2

-----------------------------------------------------------------------------
(* Values *)

NULL == [null |-> TRUE]
InvalidDate == [invalid |-> TRUE]
Date(t) == [time |-> t]
IsoText(t) == [iso |-> t]
EmptyText == [text |-> ""]

Categories == {"Work", "Personal", "Shopping", "Health", "Education", "Other"}
Priorities == {"Low", "Medium", "High"}

ObjectIdLen == 24

\* The documented lengths: title 1-200 characters, description up to 1000
MaxTitleLen == 200
MaxDescriptionLen == 1000

\* new Date(text)
NewDate(s) == IF "iso" \in DOMAIN s THEN Date(s.iso) ELSE InvalidDate

IsValidDate(d) == DOMAIN d = {"time"}

\* JavaScript truthiness of a string / of a date text
Truthy(s) == s # ""
TruthyText(s) == s # EmptyText

Has(obj, key) == key \in DOMAIN obj

-----------------------------------------------------------------------------
(* TaskService.getTaskStats: the computation on the snapshot allTasks *)

Total(allTasks) == Cardinality(DOMAIN allTasks)

Completed(allTasks) ==
    Cardinality({i \in DOMAIN allTasks : allTasks[i].completed})

\* pending recounted without taking the completed tasks out
PendingNotSubtracted(total, completed) == total

Pending(total, completed) == total - completed

\* a deadline that is exactly now already counts
IsOverdueAtDeadline(task, now) ==
    /\ ~task.completed
    /\ task.deadline # NULL
    /\ task.deadline.time <= now

\* the comparison turned round: the deadline is still ahead
IsOverdueAhead(task, now) ==
    /\ ~task.completed
    /\ task.deadline # NULL
    /\ task.deadline.time > now

IsOverdue(task, now) ==
    /\ ~task.completed
    /\ task.deadline # NULL
    /\ task.deadline.time < now

\* overdue counted over all tasks, the completed ones included
OverdueOfAll(allTasks, now) ==
    Cardinality({i \in DOMAIN allTasks :
        allTasks[i].deadline # NULL /\ allTasks[i].deadline.time < now})

Overdue(allTasks, now) ==
    Cardinality({i \in DOMAIN allTasks : IsOverdue(allTasks[i], now)})

\* the accumulator is overwritten instead of incremented
CountByOverwritten(allTasks, field) ==
    [v \in {allTasks[i][field] : i \in DOMAIN allTasks} |-> 1]

\* the accumulator starts with a zero for every value of the enumeration
CountByZeroFilled(allTasks, field) ==
    [v \in (IF field = "category" THEN Categories ELSE Priorities) |->
        Cardinality({i \in DOMAIN allTasks : allTasks[i][field] = v})]

\* allTasks.reduce((acc, task) => { acc[task[field]] = (acc[task[field]] || 0) + 1 }, {})
CountBy(allTasks, field) ==
    [v \in {allTasks[i][field] : i \in DOMAIN allTasks} |->
        Cardinality({i \in DOMAIN allTasks : allTasks[i][field] = v})]

TaskStats(allTasks, now) ==
    LET total == Total(allTasks)
        completed == Completed(allTasks)
    IN  [total |-> total,
         completed |-> completed,
         pending |-> Pending(total, completed),
         overdue |-> Overdue(allTasks, now),
         byCategory |-> CountBy(allTasks, "category"),
         byPriority |-> CountBy(allTasks, "priority")]

-----------------------------------------------------------------------------
(* Validation: the Joi schemas, run by the validate middleware *)

CreateKeys == {"title", "description", "category", "priority", "deadline"}
UpdateKeys == CreateKeys \cup {"completed"}

\* Joi.date().min("now"): a deadline that is exactly now passes
JoiDeadlineOkFromNow(v, now) ==
    \/ v = NULL
    \/ /\ IsValidDate(NewDate(v))
       /\ NewDate(v).time >= now

\* Joi.date().greater("now").allow(null)
JoiDeadlineOk(v, now) ==
    \/ v = NULL
    \/ /\ IsValidDate(NewDate(v))
       /\ NewDate(v).time > now

\* The rules without the one on category: any text passes as a category
JoiFieldsOkAnyCategory(body, now) ==
    /\ Has(body, "title") => body.title >= 1
    /\ Has(body, "description") => body.description >= 0
    /\ Has(body, "priority") => body.priority \in Priorities
    /\ Has(body, "deadline") => JoiDeadlineOk(body.deadline, now)

\* The rules the two schemas share; required keys are checked by the caller.
JoiFieldsOk(body, now) ==
    /\ Has(body, "title") => body.title >= 1
    /\ Has(body, "description") => body.description >= 0
    /\ Has(body, "category") => body.category \in Categories
    /\ Has(body, "priority") => body.priority \in Priorities
    /\ Has(body, "deadline") => JoiDeadlineOk(body.deadline, now)

createTaskSchema(body, now) ==
    /\ DOMAIN body \subseteq CreateKeys
    /\ {"title", "category", "priority"} \subseteq DOMAIN body
    /\ JoiFieldsOk(body, now)

updateTaskSchema(body, now) ==
    /\ DOMAIN body \subseteq UpdateKeys
    /\ JoiFieldsOk(body, now)

\* details: the messages of the Joi error, one text for all of them
ValidationError == [error |-> "Validation error", details |-> <<"messages">>]

-----------------------------------------------------------------------------
(* The mongoose model: casting, defaults, timestamps *)

\* Cast of a body value to the schema type of its path.
Cast(key, v) ==
    IF key = "deadline"
    THEN (IF v = NULL THEN NULL ELSE NewDate(v))
    ELSE v

\* Task.create(data): schema defaults, then the supplied paths, then timestamps.
NewDocument(data, now) ==
    [title |-> data.title,
     description |-> IF Has(data, "description") THEN data.description ELSE 0,
     category |-> data.category,
     priority |-> data.priority,
     deadline |-> IF Has(data, "deadline") THEN Cast("deadline", data.deadline) ELSE NULL,
     completed |-> FALSE,
     createdAt |-> now,
     updatedAt |-> now]

\* findByIdAndUpdate(id, data, {new: true}): $set of the supplied paths, updatedAt refreshed.
UpdatedDocument(doc, data, now) ==
    [k \in DOMAIN doc |->
        IF k = "updatedAt" THEN now
        ELSE IF Has(data, k) THEN Cast(k, data[k])
        ELSE doc[k]]

\* The validators of a path of TaskSchema: required, enum
PathValid(key, v) ==
    CASE key = "title" -> v >= 1
      [] key = "category" -> v \in Categories
      [] key = "priority" -> v \in Priorities
      [] OTHER -> TRUE

\* Document validation (create) and update validation (runValidators: true)
\* run the validators of the paths they are given.
Validates(paths) == \A k \in DOMAIN paths : PathValid(k, paths[k])

\* A mongoose ValidationError has no status: errorHandler answers 500
StoreValidationError == [error |-> "Validation failed"]

-----------------------------------------------------------------------------
(* Inputs *)

\* Bodies of POST /tasks
CreateBodies ==
    {[title |-> 1, category |-> "Work", priority |-> "High"],
     [title |-> MaxTitleLen + 1, description |-> MaxDescriptionLen + 1,
      category |-> "Personal", priority |-> "Low", deadline |-> NULL],
     [title |-> 0, category |-> "Work", priority |-> "High"],
     [title |-> 1, category |-> "Urgent", priority |-> "High"],
     [title |-> 1, category |-> "Work", priority |-> "Top"],
     [category |-> "Work", priority |-> "High"],
     [title |-> 1, category |-> "Work", priority |-> "High", completed |-> TRUE],
     [title |-> 1, category |-> "Work", priority |-> "High", deadline |-> [text |-> "soon"]]}
    \cup {[title |-> 1, category |-> "Work", priority |-> "Low", deadline |-> IsoText(t)] :
            t \in 0..(MaxTime - 1)}

\* Bodies of PUT /tasks/:id
UpdateBodies ==
    {[completed |-> TRUE],
     [category |-> "Urgent"],
     [title |-> 0]}
    \cup {[deadline |-> IsoText(t)] : t \in 0..(MaxTime - 1)}

\* Query strings of GET /tasks: every choice of supplied keys and values
QueryValues ==
    [category |-> {"", "Work", "Urgent"},
     priority |-> {"", "High"},
     completed |-> {"true", "false", "yes"},
     deadlineFrom |-> {EmptyText, IsoText(1), IsoText(2), [text |-> "soon"]},
     deadlineTo |-> {EmptyText, IsoText(1), IsoText(2), [text |-> "soon"]},
     sortBy |-> {"", "deadline"},
     sortOrder |-> {"asc", "desc", "up"}]

\* The key k absent, or supplied with one of its values
Param(k) == {<<>>} \cup {k :> v : v \in QueryValues[k]}

AllQueries ==
    {c @@ p @@ d @@ f @@ t @@ b @@ o :
        c \in Param("category"), p \in Param("priority"), d \in Param("completed"),
        f \in Param("deadlineFrom"), t \in Param("deadlineTo"),
        b \in Param("sortBy"), o \in Param("sortOrder")}

\* The query strings tried while the collection changes
SomeQueries ==
    {<<>>,
     [completed |-> "true"],
     [category |-> "Work", deadlineFrom |-> IsoText(1), sortBy |-> "deadline", sortOrder |-> "asc"],
     [deadlineTo |-> [text |-> "soon"]]}

\* The id strings of /tasks/:id
IdParams ==
    {[len |-> ObjectIdLen, hex |-> TRUE, oid |-> i] : i \in 1..(MaxTasks + 1)}
    \cup {[len |-> ObjectIdLen, hex |-> FALSE, oid |-> 0],
          [len |-> ObjectIdLen - 1, hex |-> TRUE, oid |-> 0]}

\* id.match(/^[0-9a-fA-F]+$/): hexadecimal digits, any number of them
IsObjectIdAnyLength(id) == id.hex

\* id.match(/^[0-9a-fA-F]{24}$/)
IsObjectId(id) == id.hex /\ id.len = ObjectIdLen

InvalidIdError ==
    [error |-> "Invalid ID format",
     message |-> "Task ID must be a valid MongoDB ObjectId", status |-> 400]
NotFoundError ==
    [error |-> "Task not found",
     message |-> "No task found with the provided ID", status |-> 404]

-----------------------------------------------------------------------------
(* State *)

Init ==
    /\ tasks = <<>>
    /\ lastId = 0
    /\ clock = 0
    /\ statsCall = NULL
    /\ res = [op |-> "none", status |-> 0, body |-> NULL]

\* Time passes.
Tick ==
    /\ clock < MaxTime
    /\ clock' = clock + 1
    /\ UNCHANGED <<tasks, lastId, statsCall, res>>

Respond(op, status, body) == [op |-> op, status |-> status, body |-> body]

\* A response as it is recorded: with the middleware or handler that sent it
\* and the id parameter and the body of the request it answers.
Sent(by, req, response) == [by |-> by] @@ req @@ response

\* A document as it is serialized: its fields and its _id
Json(coll, i) == ("_id" :> i) @@ coll[i]

\* Task.create(data)
Created(coll, oid, data, now) == coll @@ (oid :> NewDocument(data, now))

\* Task.findByIdAndUpdate(id, data, {new: true, runValidators: true}), id found
Updated(coll, oid, data, now) ==
    [coll EXCEPT ![oid] = UpdatedDocument(@, data, now)]

\* A soft delete: the document is marked and stays in the collection.
DeletedMarked(coll, oid) == [coll EXCEPT ![oid].completed = TRUE]

\* Task.findByIdAndDelete(id), id found
Deleted(coll, oid) == [j \in DOMAIN coll \ {oid} |-> coll[j]]

\* A find that writes: every document it reads gets its updatedAt refreshed.
FoundTouched(coll) == [i \in DOMAIN coll |-> [coll[i] EXCEPT !.updatedAt = clock]]

\* Task.find(...) and Task.findById(...) leave the collection as it is
Found(coll) == coll

\* POST /tasks: validate(createTaskSchema), then TaskController.createTask
CreateTask ==
    \E body \in CreateBodies :
        IF ~createTaskSchema(body, clock)
        THEN /\ res' = Sent("validate", [data |-> body],
                            Respond("createTask", 400, ValidationError))
             /\ UNCHANGED <<tasks, lastId, clock, statsCall>>
        ELSE IF ~Validates(NewDocument(body, clock))
        THEN /\ res' = Sent("errorHandler", [data |-> body],
                            Respond("createTask", 500, StoreValidationError))
             /\ UNCHANGED <<tasks, lastId, clock, statsCall>>
        ELSE /\ lastId < MaxTasks
             /\ lastId' = lastId + 1
             /\ tasks' = Created(tasks, lastId', body, clock)
             /\ res' = Sent("TaskController", [data |-> body],
                            Respond("createTask", 201, Json(tasks', lastId')))
             /\ UNCHANGED <<clock, statsCall>>

\* PUT /tasks/:id: validate(updateTaskSchema), then TaskController.updateTask
UpdateTask ==
    /\ \/ \E id \in IdParams, body \in UpdateBodies :
            /\ ~updateTaskSchema(body, clock)
            /\ res' = Sent("validate", [id |-> id, data |-> body],
                           Respond("updateTask", 400, ValidationError))
            /\ tasks' = tasks
       \/ \E id \in IdParams, body \in UpdateBodies :
            /\ updateTaskSchema(body, clock)
            /\ IF ~IsObjectId(id)
               THEN /\ res' = Sent("TaskController", [id |-> id, data |-> body],
                                   Respond("updateTask", 400, InvalidIdError))
                    /\ tasks' = tasks
               ELSE IF ~Validates(body)
               THEN /\ res' = Sent("errorHandler", [id |-> id, data |-> body],
                                   Respond("updateTask", 500, StoreValidationError))
                    /\ tasks' = tasks
               ELSE IF id.oid \notin DOMAIN tasks
               THEN /\ res' = Sent("TaskController", [id |-> id, data |-> body],
                                   Respond("updateTask", 404, NotFoundError))
                    /\ tasks' = tasks
               ELSE /\ tasks' = Updated(tasks, id.oid, body, clock)
                    /\ res' = Sent("TaskController", [id |-> id, data |-> body],
                                   Respond("updateTask", 200, Json(tasks', id.oid)))
    /\ UNCHANGED <<lastId, clock, statsCall>>

DeletedTask(doc, oid) ==
    [message |-> "Task deleted successfully",
     deletedTask |-> [_id |-> oid, title |-> doc.title, category |-> doc.category,
                      priority |-> doc.priority, completed |-> doc.completed]]

\* DELETE /tasks/:id: TaskController.deleteTask
DeleteTask ==
    \E id \in IdParams :
        /\ IF ~IsObjectId(id)
           THEN /\ res' = Sent("TaskController", [id |-> id],
                               Respond("deleteTask", 400, InvalidIdError))
                /\ tasks' = tasks
           ELSE IF id.oid \notin DOMAIN tasks
           THEN /\ res' = Sent("TaskController", [id |-> id],
                               Respond("deleteTask", 404, NotFoundError))
                /\ tasks' = tasks
           ELSE /\ tasks' = Deleted(tasks, id.oid)
                /\ res' = Sent("TaskController", [id |-> id],
                               Respond("deleteTask", 200, DeletedTask(tasks[id.oid], id.oid)))
        /\ UNCHANGED <<lastId, clock, statsCall>>

\* GET /tasks/:id: TaskController.getTaskById
GetTaskById ==
    \E id \in IdParams :
        /\ res' = Sent("TaskController", [id |-> id],
                       IF ~IsObjectId(id) THEN Respond("getTaskById", 400, InvalidIdError)
                       ELSE IF id.oid \notin DOMAIN tasks
                       THEN Respond("getTaskById", 404, NotFoundError)
                       ELSE Respond("getTaskById", 200, Json(tasks, id.oid)))
        /\ tasks' = Found(tasks)
        /\ UNCHANGED <<lastId, clock, statsCall>>

\* A request that matches no route: the notFound middleware of app.js
NotFound ==
    /\ res' = Sent("notFound", <<>>, Respond("notFound", 404, [error |-> "Not Found"]))
    /\ UNCHANGED <<tasks, lastId, clock, statsCall>>

\* GET /tasks/stats, up to the await: now = new Date(); Task.find({}) is issued
StatsBegin ==
    /\ statsCall = NULL
    /\ statsCall' = [now |-> clock]
    /\ UNCHANGED <<tasks, lastId, clock, res>>

\* GET /tasks/stats, from the await on: Task.find({}) answers with the
\* collection as it is at this instant, and the statistics are computed from it
StatsRead ==
    /\ statsCall # NULL
    /\ res' = [by |-> "TaskController", op |-> "getTaskStats", status |-> 200,
               body |-> TaskStats(tasks, statsCall.now), now |-> statsCall.now]
    /\ tasks' = Found(tasks)
    /\ statsCall' = NULL
    /\ UNCHANGED <<lastId, clock>>

-----------------------------------------------------------------------------
(* GET /tasks: the filter and the sort built from the query string *)

Desc == 0 - 1
Asc == 1

\* the two bounds attached the wrong way round
DeadlineRangeSwapped(query) ==
    (IF Has(query, "deadlineFrom") /\ TruthyText(query.deadlineFrom)
     THEN "$lte" :> NewDate(query.deadlineFrom) ELSE <<>>)
    @@
    (IF Has(query, "deadlineTo") /\ TruthyText(query.deadlineTo)
     THEN "$gte" :> NewDate(query.deadlineTo) ELSE <<>>)

\* filter.deadline = {}; $gte and $lte are set from the bounds that are truthy
DeadlineRange(query) ==
    (IF Has(query, "deadlineFrom") /\ TruthyText(query.deadlineFrom)
     THEN "$gte" :> NewDate(query.deadlineFrom) ELSE <<>>)
    @@
    (IF Has(query, "deadlineTo") /\ TruthyText(query.deadlineTo)
     THEN "$lte" :> NewDate(query.deadlineTo) ELSE <<>>)

\* if (category) filter.category = category
CategoryFilter(query) ==
    IF Has(query, "category") /\ Truthy(query.category)
    THEN "category" :> query.category ELSE <<>>

\* the priority tested, the category attached
PriorityFilterMiskeyed(query) ==
    IF Has(query, "priority") /\ Truthy(query.priority) /\ Has(query, "category")
    THEN "priority" :> query.category ELSE <<>>

\* if (priority) filter.priority = priority
PriorityFilter(query) ==
    IF Has(query, "priority") /\ Truthy(query.priority)
    THEN "priority" :> query.priority ELSE <<>>

\* everything but "false" read as true
CompletedFilterLenient(query) ==
    IF Has(query, "completed")
    THEN "completed" :> (query.completed # "false") ELSE <<>>

\* if (completed !== undefined) filter.completed = completed === 'true'
CompletedFilter(query) ==
    IF Has(query, "completed")
    THEN "completed" :> (query.completed = "true") ELSE <<>>

\* if (deadlineFrom || deadlineTo) { filter.deadline = {}; ... }
DeadlineFilter(query) ==
    IF \/ Has(query, "deadlineFrom") /\ TruthyText(query.deadlineFrom)
       \/ Has(query, "deadlineTo") /\ TruthyText(query.deadlineTo)
    THEN "deadline" :> DeadlineRange(query) ELSE <<>>

BuildFilter(query) ==
    CategoryFilter(query) @@ PriorityFilter(query) @@ CompletedFilter(query)
        @@ DeadlineFilter(query)

\* without sortBy the order is ascending
BuildSortAscending(query) ==
    LET sortOrder == IF Has(query, "sortOrder") THEN query.sortOrder ELSE "desc"
    IN  IF Has(query, "sortBy") /\ Truthy(query.sortBy)
        THEN query.sortBy :> (IF sortOrder = "asc" THEN Asc ELSE Desc)
        ELSE "createdAt" :> Asc

BuildSort(query) ==
    LET sortOrder == IF Has(query, "sortOrder") THEN query.sortOrder ELSE "desc"
    IN  IF Has(query, "sortBy") /\ Truthy(query.sortBy)
        THEN query.sortBy :> (IF sortOrder = "asc" THEN Asc ELSE Desc)
        ELSE "createdAt" :> Desc

(* Task.find(filter).sort(sort) *)

\* A condition that cannot be cast to the type of its path makes the query fail.
CastError(filter) ==
    /\ Has(filter, "deadline")
    /\ \E b \in DOMAIN filter.deadline : ~IsValidDate(filter.deadline[b])

InRange(deadline, range) ==
    /\ deadline # NULL
    /\ Has(range, "$gte") => deadline.time >= range["$gte"].time
    /\ Has(range, "$lte") => deadline.time <= range["$lte"].time

Matches(doc, filter) ==
    \A k \in DOMAIN filter :
        IF k = "deadline" THEN InRange(doc.deadline, filter.deadline)
        ELSE doc[k] = filter[k]

\* The value a document is ordered by: null and missing fields sort lowest.
SortValue(doc, field) ==
    IF field \in {"createdAt", "updatedAt"} THEN doc[field] + 1
    ELSE IF field = "deadline" /\ doc.deadline # NULL THEN doc.deadline.time + 1
    ELSE 0

\* i comes before j; documents that compare equal keep the collection's order.
Before(coll, sort, i, j) ==
    LET field == CHOOSE k \in DOMAIN sort : TRUE
        vi == SortValue(coll[i], field) * sort[field]
        vj == SortValue(coll[j], field) * sort[field]
    IN  vi < vj \/ (vi = vj /\ i <= j)

RECURSIVE Sorted(_, _, _)
Sorted(coll, ids, sort) ==
    IF ids = {} THEN <<>>
    ELSE LET first == CHOOSE i \in ids : \A j \in ids : Before(coll, sort, i, j)
         IN  <<Json(coll, first)>> \o Sorted(coll, ids \ {first}, sort)

Find(coll, filter, sort) ==
    Sorted(coll, {i \in DOMAIN coll : Matches(coll[i], filter)}, sort)

InternalError == [error |-> "Cast to date failed"]

\* GET /tasks: TaskController.getTasks
GetTasks(queries) ==
    \E query \in queries :
        LET filter == BuildFilter(query)
            sort == BuildSort(query)
        IN  /\ res' = [by |-> IF CastError(filter) THEN "errorHandler" ELSE "TaskController",
                       op |-> "getTasks", query |-> query, filter |-> filter, sort |-> sort,
                       status |-> IF CastError(filter) THEN 500 ELSE 200,
                       body |-> IF CastError(filter) THEN InternalError
                                ELSE Find(tasks, filter, sort)]
            /\ tasks' = Found(tasks)
            /\ UNCHANGED <<lastId, clock, statsCall>>

Next ==
    \/ Tick
    \/ CreateTask
    \/ UpdateTask
    \/ DeleteTask
    \/ GetTaskById
    \/ GetTasks(SomeQueries)
    \/ NotFound
    \/ StatsBegin
    \/ StatsRead

Spec == Init /\ [][Next]_vars

-----------------------------------------------------------------------------
(* The query builder on its own: a collection left by earlier requests,   *)
(* and one GET /tasks with any query string.                              *)

Doc(category, priority, deadline, completed, createdAt, updatedAt) ==
    [title |-> 1, description |-> 0, category |-> category, priority |-> priority,
     deadline |-> deadline, completed |-> completed,
     createdAt |-> createdAt, updatedAt |-> updatedAt]

SampleStores ==
    {<<>>,
     <<Doc("Work", "High", Date(1), FALSE, 0, 0),
       Doc("Personal", "Low", NULL, TRUE, 0, 1)>>,
     <<Doc("Work", "High", Date(2), TRUE, 1, 2),
       Doc("Work", "High", NULL, FALSE, 1, 1)>>}

InitQuery ==
    /\ tasks \in SampleStores
    /\ lastId = Len(tasks)
    /\ clock = MaxTime
    /\ statsCall = NULL
    /\ res = [op |-> "none", status |-> 0, body |-> NULL]

NextQuery == res.op = "none" /\ GetTasks(AllQueries)

SpecQuery == InitQuery /\ [][NextQuery]_vars

-----------------------------------------------------------------------------
(* Claims about the statistics (GET /tasks/stats), under Spec.  The last   *)
(* response stays in res until the next response replaces it, and every    *)
(* request that changes the collection responds, so while res holds a      *)
(* statistics result the collection is the one it was computed from.       *)

StatsDone == res.op = "getTaskStats"

stats == res.body

RECURSIVE SumOver(_, _)
SumOver(f, keys) ==
    IF keys = {} THEN 0
    ELSE LET k == CHOOSE x \in keys : TRUE
         IN  f[k] + SumOver(f, keys \ {k})

SumValues(f) == SumOver(f, DOMAIN f)

\* C1: in every statistics result pending = total - completed, where total
\* is the number of stored records and completed the number of records with
\* completed = true, so that pending is the number of records with
\* completed = false.
C1_PendingIsComplement ==
    StatsDone =>
        /\ stats.pending = stats.total - stats.completed
        /\ stats.total = Cardinality(DOMAIN tasks)
        /\ stats.completed = Cardinality({i \in DOMAIN tasks : tasks[i].completed = TRUE})
        /\ stats.pending = Cardinality({i \in DOMAIN tasks : tasks[i].completed = FALSE})

C1_Witness ==
    /\ StatsDone
    /\ stats.total = 2
    /\ stats.completed = 1
    /\ stats.pending = 1

\* C2: overdue is the number of records that are not completed, have a
\* deadline, and whose deadline is strictly before the instant now of the
\* evaluation; a record without deadline and a record whose deadline is now
\* are not counted.
C2_OverdueCount ==
    StatsDone =>
        /\ stats.overdue =
             Cardinality({i \in DOMAIN tasks :
                            /\ tasks[i].completed = FALSE
                            /\ tasks[i].deadline \in {Date(t) : t \in 0..(res.now - 1)}})
        /\ stats.overdue <=
             Cardinality({i \in DOMAIN tasks :
                            tasks[i].deadline \notin {NULL, Date(res.now)}})

C2_Witness ==
    /\ StatsDone
    /\ stats.overdue = 1
    /\ \E i \in DOMAIN tasks : ~tasks[i].completed /\ tasks[i].deadline = NULL
    /\ \E i \in DOMAIN tasks : ~tasks[i].completed /\ tasks[i].deadline = Date(res.now - 1)

\* C3: for a non-empty record set the counts of byCategory sum to total, and
\* so do the counts of byPriority.
C3_GroupsSumToTotal ==
    (StatsDone /\ DOMAIN tasks # {}) =>
        /\ SumValues(stats.byCategory) = stats.total
        /\ SumValues(stats.byPriority) = stats.total

C3_Witness ==
    /\ StatsDone
    /\ stats.total = 2
    /\ stats.byCategory = [Work |-> 2]
    /\ stats.byPriority = [High |-> 1, Low |-> 1]

\* C4: the keys of byCategory are exactly the categories of the stored
\* records, each with the number of records of that category, and likewise
\* byPriority; a value no record has is left out, so the empty collection
\* gives zero counts and two empty mappings.
C4_GroupsArePresentValues ==
    StatsDone =>
        /\ DOMAIN stats.byCategory = {tasks[i].category : i \in DOMAIN tasks}
        /\ DOMAIN stats.byPriority = {tasks[i].priority : i \in DOMAIN tasks}
        /\ \A c \in DOMAIN stats.byCategory :
             /\ stats.byCategory[c] = Cardinality({i \in DOMAIN tasks : tasks[i].category = c})
             /\ stats.byCategory[c] >= 1
        /\ \A p \in DOMAIN stats.byPriority :
             /\ stats.byPriority[p] = Cardinality({i \in DOMAIN tasks : tasks[i].priority = p})
             /\ stats.byPriority[p] >= 1
        /\ DOMAIN tasks = {} =>
             stats = [total |-> 0, completed |-> 0, pending |-> 0, overdue |-> 0,
                      byCategory |-> <<>>, byPriority |-> <<>>]

C4_Witness ==
    /\ StatsDone
    /\ Cardinality(DOMAIN tasks) = 2
    /\ DOMAIN stats.byCategory = {"Personal", "Work"}
    /\ DOMAIN stats.byPriority = {"Low"}

\* the empty collection, for C4's last sentence
C4_EmptyReached == StatsDone /\ DOMAIN tasks = {} /\ lastId > 0

-----------------------------------------------------------------------------
(* Claims about the list (GET /tasks), under SpecQuery *)

ListDone == res.op = "getTasks"

\* the _ids of the documents of a list result
Listed == {res.body[k]._id : k \in 1..Len(res.body)}

\* the key is in the query string (with any value, the empty one included)
Supplied(key) == Has(res.query, key)

\* the key is in the query string with a value that is not empty
Given(key) ==
    /\ Has(res.query, key)
    /\ IF key \in {"deadlineFrom", "deadlineTo"}
       THEN res.query[key] # EmptyText
       ELSE res.query[key] # ""

\* the deadline d lies in the window the non-empty bounds of the query give
InWindow(d) ==
    /\ d # NULL
    /\ Given("deadlineFrom") => d.time >= res.query.deadlineFrom.iso
    /\ Given("deadlineTo") => d.time <= res.query.deadlineTo.iso

\* every non-empty bound of the query is the text of a date
BoundsAreDates ==
    \A key \in {"deadlineFrom", "deadlineTo"} : Given(key) => Has(res.query[key], "iso")

\* C5: with no query parameter the filter has no predicate, every record
\* is returned, and the sort is createdAt descending.
C5_NoParameters ==
    (ListDone /\ DOMAIN res.query = {}) =>
        /\ DOMAIN res.filter = {}
        /\ res.sort = [createdAt |-> Desc]
        /\ res.status = 200
        /\ Listed = DOMAIN tasks

C5_Witness ==
    /\ ListDone
    /\ DOMAIN res.query = {}
    /\ Len(res.body) = 2

\* C6: the sort names the field sortBy (createdAt without sortBy) and is
\* descending unless sortOrder is "asc", and then ascending: also without sortBy.
C6_SortFieldAndOrder ==
    ListDone =>
        res.sort =
            (IF Given("sortBy") THEN res.query.sortBy ELSE "createdAt")
            :> (IF Supplied("sortOrder") /\ res.query.sortOrder = "asc" THEN Asc ELSE Desc)

\* C7: completed = "true" filters on completed = true, any other supplied
\* value on completed = false, and without it completed is not filtered on.
C7_CompletedCoercion ==
    ListDone =>
        /\ Supplied("completed") <=> Has(res.filter, "completed")
        /\ Supplied("completed") =>
             /\ res.filter.completed = (res.query.completed = "true")
             /\ res.status = 200 =>
                  \A i \in Listed : tasks[i].completed = (res.query.completed = "true")
        /\ (DOMAIN res.query = {"completed"}) =>
             Listed = {i \in DOMAIN tasks :
                         tasks[i].completed = (res.query.completed = "true")}

C7_Witness ==
    /\ ListDone
    /\ DOMAIN res.query = {"completed"}
    /\ res.query.completed = "yes"
    /\ Len(res.body) = 1
    /\ Cardinality(DOMAIN tasks) = 2

\* C8 as claimed: the filter has a deadline range exactly when deadlineFrom
\* or deadlineTo is supplied, with $gte exactly when deadlineFrom is supplied
\* and $lte exactly when deadlineTo is.
C8_RangeWhenSupplied ==
    ListDone =>
        /\ Has(res.filter, "deadline") <=> (Supplied("deadlineFrom") \/ Supplied("deadlineTo"))
        /\ Has(res.filter, "deadline") =>
             /\ Has(res.filter.deadline, "$gte") <=> Supplied("deadlineFrom")
             /\ Has(res.filter.deadline, "$lte") <=> Supplied("deadlineTo")

\* C8, amended: the filter has a deadline range exactly when deadlineFrom or
\* deadlineTo is supplied with a non-empty value; $gte is deadlineFrom
\* exactly when that one is non-empty, $lte is deadlineTo exactly when that
\* one is non-empty; the records returned have a deadline inside the
\* inclusive window, and with the two bounds and nothing else they are
\* exactly the records whose deadline is inside it, no other field filtered.
C8_RangeWhenGiven ==
    ListDone =>
        /\ Has(res.filter, "deadline") <=> (Given("deadlineFrom") \/ Given("deadlineTo"))
        /\ Has(res.filter, "deadline") =>
             /\ Has(res.filter.deadline, "$gte") <=> Given("deadlineFrom")
             /\ Has(res.filter.deadline, "$lte") <=> Given("deadlineTo")
             /\ Given("deadlineFrom") =>
                  res.filter.deadline["$gte"] = NewDate(res.query.deadlineFrom)
             /\ Given("deadlineTo") =>
                  res.filter.deadline["$lte"] = NewDate(res.query.deadlineTo)
             /\ (BoundsAreDates /\ res.status = 200) =>
                  \A i \in Listed : InWindow(tasks[i].deadline)
        /\ (DOMAIN res.query = {"deadlineFrom", "deadlineTo"} /\ BoundsAreDates
              /\ Has(res.filter, "deadline")) =>
             /\ res.status = 200
             /\ DOMAIN res.filter = {"deadline"}
             /\ Listed = {i \in DOMAIN tasks : InWindow(tasks[i].deadline)}

C8_Witness ==
    /\ ListDone
    /\ DOMAIN res.query = {"deadlineFrom", "deadlineTo"}
    /\ res.query.deadlineFrom = IsoText(1)
    /\ res.query.deadlineTo = IsoText(2)
    /\ Len(res.body) = 1
    /\ \E i \in DOMAIN tasks : tasks[i].deadline = NULL

\* the fields the filter may name
FilterFields == {"category", "priority", "completed", "deadline"}

\* C9 as claimed: the filter has one predicate for each of category,
\* priority and completed that is supplied, with the supplied value, a
\* deadline range when a bound is supplied, and nothing else.
C9_PredicatePerSupplied ==
    ListDone =>
        /\ DOMAIN res.filter =
             {k \in {"category", "priority", "completed"} : Supplied(k)}
             \cup (IF Supplied("deadlineFrom") \/ Supplied("deadlineTo")
                   THEN {"deadline"} ELSE {})
        /\ Has(res.filter, "category") => res.filter.category = res.query.category
        /\ Has(res.filter, "priority") => res.filter.priority = res.query.priority

\* C9, amended: the filter has one predicate for each of category and
\* priority that is supplied with a non-empty value (that value), one for
\* completed when it is supplied (the coerced boolean), a deadline range
\* when a bound is non-empty, and no predicate on anything else; the
\* records returned are those that satisfy all of them.
C9_PredicatePerGiven ==
    ListDone =>
        /\ DOMAIN res.filter \subseteq FilterFields
        /\ DOMAIN res.filter =
             {k \in {"category", "priority"} : Given(k)}
             \cup {k \in {"completed"} : Supplied(k)}
             \cup (IF Given("deadlineFrom") \/ Given("deadlineTo")
                   THEN {"deadline"} ELSE {})
        /\ Given("category") => res.filter.category = res.query.category
        /\ Given("priority") => res.filter.priority = res.query.priority
        /\ (BoundsAreDates /\ res.status = 200) =>
             Listed =
               {i \in DOMAIN tasks :
                  /\ Given("category") => tasks[i].category = res.query.category
                  /\ Given("priority") => tasks[i].priority = res.query.priority
                  /\ Supplied("completed") =>
                       tasks[i].completed = (res.query.completed = "true")
                  /\ (Given("deadlineFrom") \/ Given("deadlineTo")) =>
                       InWindow(tasks[i].deadline)}

C9_Witness ==
    /\ ListDone
    /\ res.status = 200
    /\ DOMAIN res.filter = FilterFields
    /\ res.query.category = "Work"
    /\ res.query.priority = "High"
    /\ res.query.completed = "false"
    /\ Len(res.body) = 1
    /\ Cardinality(DOMAIN tasks) = 2

-----------------------------------------------------------------------------
(* Claims about what changes the collection, under Spec *)

\* C10: a step that changes the collection is a create, an update or a
\* delete that succeeded; the list and the statistics (neither the step that
\* issues the read nor the one that answers) leave every document as it was.
C10_OnlyWritesChangeStore ==
    [][tasks' # tasks =>
         /\ res'.op \in {"createTask", "updateTask", "deleteTask"}
         /\ res'.status \in {200, 201}
         /\ statsCall' = statsCall]_vars

C10_Witness ==
    /\ ListDone
    /\ res.status = 200
    /\ Len(res.body) = 2
    /\ \E i \in DOMAIN tasks : tasks[i].updatedAt < clock

-----------------------------------------------------------------------------
(* Claims about requests on /tasks/:id, under Spec *)

ByIdOps == {"getTaskById", "updateTask", "deleteTask"}

\* the ids that were given to a task and belong to no task any more
Gone == (1..lastId) \ DOMAIN tasks

\* a step of one of the handlers that answer at once: every other step lets
\* time pass or begins or ends a statistics call
Answers == clock' = clock /\ statsCall' = statsCall

\* this step answers a request on /tasks/:id
AnswersById == Answers /\ res'.op \in ByIdOps

\* this step answers a request on the id of a deleted task
AnswersGone == AnswersById /\ IsObjectId(res'.id) /\ res'.id.oid \in Gone

\* this step is a DELETE that succeeded
DeleteSucceeds == Answers /\ res'.op = "deleteTask" /\ res'.status = 200

\* what C11 says of every step but the answers to requests on a deleted id
DeletedIsAbsent ==
    /\ DeleteSucceeds => res'.id.oid \in DOMAIN tasks \ DOMAIN tasks'
    /\ \A i \in Gone : i \notin DOMAIN tasks'

\* C11 as stated: a successful DELETE removes the task, no later step brings
\* a deleted id back, every GET, PUT and DELETE on a deleted id answers 404, a
\* list result holds stored tasks only and the statistics count stored tasks
\* only.
C11_GoneAnswers404 ==
    /\ [](ListDone /\ res.status = 200 => Listed \subseteq DOMAIN tasks)
    /\ [](StatsDone => stats.total + Cardinality(Gone) = lastId)
    /\ [][/\ DeletedIsAbsent
          /\ AnswersGone => res'.status = 404]_vars

\* C11, amended: a successful DELETE removes the task, no later step brings a
\* deleted id back, a list result holds stored tasks only, the statistics
\* count stored tasks only, and every GET and DELETE on a deleted id answers
\* 404, as does every PUT unless its body fails validation (then the validate
\* middleware answers 400 before the id is looked at).
C11_GoneAnswers404OrInvalidBody ==
    /\ [](ListDone /\ res.status = 200 => Listed \subseteq DOMAIN tasks)
    /\ [](StatsDone => stats.total + Cardinality(Gone) = lastId)
    /\ [][/\ DeletedIsAbsent
          /\ AnswersGone =>
               \/ res'.status = 404 /\ res'.body = NotFoundError
               \/ res'.op = "updateTask" /\ res'.by = "validate"
                    /\ res'.status = 400]_vars

\* a deleted id is asked for and answered 404 while another task is stored
C11_Witness ==
    /\ res.op \in ByIdOps
    /\ res.status = 404
    /\ res.id.oid \in Gone
    /\ DOMAIN tasks # {}

-----------------------------------------------------------------------------
(* Claims about what validation lets into the collection, under Spec *)

\* this step answers a POST /tasks or a PUT /tasks/:id whose body was validated
AnswersBody ==
    /\ Answers
    /\ res'.op \in {"createTask", "updateTask"}
    /\ Has(res', "data")

\* the validate middleware refuses the request and the collection stays as it is
Refused ==
    /\ res'.by = "validate"
    /\ res'.status = 400
    /\ res'.body = ValidationError
    /\ tasks' = tasks

\* a body that would give a task a category or a priority outside the fixed
\* sets or an empty title, or (on create) none at all
BreaksFieldRules(op, data) ==
    \/ Has(data, "category") /\ data.category \notin Categories
    \/ Has(data, "priority") /\ data.priority \notin Priorities
    \/ Has(data, "title") /\ data.title < 1
    \/ op = "createTask" /\ ~({"title", "category", "priority"} \subseteq DOMAIN data)

\* C12: every stored task has a category among the six, a priority among the
\* three and a non-empty title, whatever creates, updates and deletes were
\* requested; a create or an update whose body would break this is refused
\* with 400 by validation and leaves the collection unchanged.
C12_StoredFieldsValid ==
    /\ [](\A i \in DOMAIN tasks :
            /\ tasks[i].category \in Categories
            /\ tasks[i].priority \in Priorities
            /\ tasks[i].title >= 1)
    /\ [][AnswersBody /\ BreaksFieldRules(res'.op, res'.data) => Refused]_vars

\* an update of a stored task with a category outside the set was refused
C12_Witness ==
    /\ res.op = "updateTask"
    /\ res.by = "validate"
    /\ Has(res.data, "category")
    /\ res.data.category \notin Categories
    /\ IsObjectId(res.id)
    /\ res.id.oid \in DOMAIN tasks

\* C13 as stated: every stored task has a title of 1 to 200 characters and a
\* description of at most 1000, and a create or update with a longer title
\* or description is answered 400 by validation.
C13_LengthsWithinLimits ==
    /\ \A i \in DOMAIN tasks :
          /\ tasks[i].title \in 1..MaxTitleLen
          /\ tasks[i].description <= MaxDescriptionLen
    /\ (/\ res.op \in {"createTask", "updateTask"}
        /\ Has(res, "data")
        /\ \/ Has(res.data, "title") /\ res.data.title > MaxTitleLen
           \/ Has(res.data, "description") /\ res.data.description > MaxDescriptionLen)
       => res.by = "validate" /\ res.status = 400

\* the text of a deadline names an instant that is not later than now
NotLater(v, now) ==
    /\ v # NULL
    /\ IsValidDate(NewDate(v))
    /\ NewDate(v).time <= now

\* the tasks whose deadline this step writes
DeadlineWritten ==
    {i \in DOMAIN tasks' : i \notin DOMAIN tasks \/ tasks'[i].deadline # tasks[i].deadline}

\* C14: a create or update that stores a deadline other than null stores one
\* strictly later than the instant of its validation; a create or update
\* whose deadline is at or before that instant is refused with 400 and leaves
\* the collection unchanged; so no task is overdue at the instant its
\* deadline is written.
C14_DeadlineAfterValidation ==
    [][/\ \A i \in DeadlineWritten :
             tasks'[i].deadline # NULL =>
                /\ IsValidDate(tasks'[i].deadline)
                /\ tasks'[i].deadline.time > clock
                /\ ~IsOverdue(tasks'[i], clock')
       /\ (AnswersBody /\ Has(res'.data, "deadline") /\ NotLater(res'.data.deadline, clock))
             => Refused]_vars

\* an update gave a stored task a deadline
C14_Witness ==
    /\ res.op = "updateTask"
    /\ res.status = 200
    /\ Has(res.data, "deadline")
    /\ tasks[res.id.oid].deadline = Date(1)
    /\ tasks[res.id.oid].createdAt = 0

-----------------------------------------------------------------------------
(* Claims about the boundary of GET /tasks, under SpecQuery *)

\* C15 as stated: on GET /tasks a category predicate of the filter names one
\* of the six categories and a priority predicate one of the three
\* priorities, because the query parameters are validated before the filter
\* is built.
C15_FilterEnumsOnly ==
    ListDone =>
        /\ Has(res.filter, "category") => res.filter.category \in Categories
        /\ Has(res.filter, "priority") => res.filter.priority \in Priorities

-----------------------------------------------------------------------------
(* Claims about error responses, under Spec *)

\* C16 as stated: every error response is sent by the central errorHandler
\* and carries the fields errorHandler gives it.
C16_ErrorsFromCentralHandler ==
    res.status >= 400 =>
        /\ res.by = "errorHandler"
        /\ DOMAIN res.body = {"error"}

\* the id is exactly 24 hexadecimal characters
TwentyFourHex(id) == id.len = 24 /\ id.hex

\* what the handlers of /tasks/:id answer for the id of the request, and what
\* the step does to the collection
IdChecked ==
    IF ~TwentyFourHex(res'.id)
    THEN /\ res'.status = 400
         /\ res'.body = InvalidIdError
         /\ tasks' = tasks
    ELSE IF res'.id.oid \notin DOMAIN tasks
    THEN /\ res'.status = 404
         /\ res'.body = NotFoundError
         /\ tasks' = tasks
    ELSE /\ res'.status = 200
         /\ res'.op = "getTaskById" => tasks' = tasks
         /\ res'.op = "updateTask" =>
               /\ DOMAIN tasks' = DOMAIN tasks
               /\ \A k \in DOMAIN res'.data :
                     tasks'[res'.id.oid][k] = Cast(k, res'.data[k])
         /\ res'.op = "deleteTask" => DOMAIN tasks' = DOMAIN tasks \ {res'.id.oid}

\* C17 as stated: GET, PUT and DELETE on /tasks/:id answer 400 "Invalid ID
\* format" when the id is not exactly 24 hexadecimal characters, 404 "Task
\* not found" when it is and no task has it, both without writing the
\* collection, and 200 only when the task exists.
C17_IdCheckedAlways == [][AnswersById => IdChecked]_vars

\* C17, amended: the same for GET and DELETE and for every PUT whose body
\* passes validation; a PUT whose body fails validation is answered 400
\* "Validation error" whatever its id and leaves the collection unchanged.
C17_IdCheckedAfterValidation ==
    [][AnswersById =>
         IF res'.op = "updateTask" /\ ~updateTaskSchema(res'.data, clock)
         THEN Refused
         ELSE IdChecked]_vars

\* a PUT with a valid body on a malformed id was answered while a task is stored
C17_Witness ==
    /\ res.op = "updateTask"
    /\ res.by = "TaskController"
    /\ res.status = 400
    /\ ~TwentyFourHex(res.id)
    /\ DOMAIN tasks # {}

-----------------------------------------------------------------------------
(* Claims about a statistics call among other requests, under Spec *)

\* the number of stored tasks for which p holds, p a function on ids
Count(p) == Cardinality({i \in DOMAIN tasks : p[i]})

\* C18: a statistics call reads the collection once and computes every
\* field from what it read, whatever creates, updates and deletes ran
\* between its start and its read: pending = total - completed, the
\* byCategory counts and the byPriority counts each sum to total, overdue <=
\* pending, and the result is the statistics of the collection as it is at
\* the read (overdue judged at the call's now).
C18_OneSnapshot ==
    StatsDone =>
        /\ stats.pending = stats.total - stats.completed
        /\ SumValues(stats.byCategory) = stats.total
        /\ SumValues(stats.byPriority) = stats.total
        /\ stats.overdue <= stats.pending
        /\ stats.total = Cardinality(DOMAIN tasks)
        /\ stats.completed = Count([i \in DOMAIN tasks |-> tasks[i].completed])
        /\ stats.overdue =
              Count([i \in DOMAIN tasks |->
                        /\ ~tasks[i].completed
                        /\ tasks[i].deadline # NULL
                        /\ tasks[i].deadline.time < res.now])
        /\ \A c \in Categories :
              Count([i \in DOMAIN tasks |-> tasks[i].category = c]) =
                 IF c \in DOMAIN stats.byCategory THEN stats.byCategory[c] ELSE 0
        /\ \A p \in Priorities :
              Count([i \in DOMAIN tasks |-> tasks[i].priority = p]) =
                 IF p \in DOMAIN stats.byPriority THEN stats.byPriority[p] ELSE 0

\* a call answered with two tasks, one of them created and one of them
\* completed after the call had taken its now
C18_Witness ==
    /\ StatsDone
    /\ stats.total = 2
    /\ stats.completed = 1
    /\ \E i \in DOMAIN tasks : tasks[i].createdAt > res.now
    /\ \E i \in DOMAIN tasks :
          /\ tasks[i].completed
          /\ tasks[i].createdAt <= res.now
          /\ tasks[i].updatedAt > res.now

\* the fields of a statistics result that do not depend on the instant
Timeless(s) == [k \in DOMAIN s \ {"overdue"} |-> s[k]]

\* this step answers a statistics call, the previous answer being one too
StatsAgain == StatsDone /\ statsCall # NULL /\ statsCall' = NULL

\* C19: two statistics evaluations at t1 <= t2 with no create, update or
\* delete between them agree on total, completed, pending, byCategory and
\* byPriority, and overdue at t2 is at least overdue at t1: for the
\* statistics of any collection at two instants, and for two consecutive
\* answers of GET /tasks/stats.
C19_OnlyOverdueGrows ==
    /\ [](\A t1 \in 0..MaxTime : \A t2 \in t1..MaxTime :
            /\ Timeless(TaskStats(tasks, t1)) = Timeless(TaskStats(tasks, t2))
            /\ TaskStats(tasks, t1).overdue <= TaskStats(tasks, t2).overdue)
    /\ [][StatsAgain =>
            /\ res.now <= res'.now
            /\ Timeless(res.body) = Timeless(res'.body)
            /\ res.body.overdue <= res'.body.overdue]_vars

\* a task counted overdue that was not written since before its deadline:
\* the statistics of the same collection at an earlier instant count fewer
C19_Witness ==
    /\ StatsDone
    /\ stats.overdue = 1
    /\ \A i \in DOMAIN tasks : tasks[i].updatedAt = 0
    /\ \E t1 \in 0..res.now : TaskStats(tasks, t1).overdue < stats.overdue

====
